---- MODULE Spec2Model ----
(***************************************************************************)
(* Model of the security-group rule bookkeeping of                         *)
(* packages/@aws-cdk/aws-ec2/lib/security-group.ts.                        *)
(*                                                                         *)
(* A JavaScript object is modelled as a function whose domain is the set   *)
(* of keys the object has (a TLA+ record); a key the object lacks reads as *)
(* `undefined`.  A string that the code takes apart or builds by template  *)
(* (uniqueId, `${connection}`, construct ids, descriptions) is a sequence  *)
(* of tokens in which "/" and "_" are always tokens of their own, so that  *)
(* String.replace acts on it as it does on the characters.                 *)
(***************************************************************************)
EXTENDS Integers, Sequences, FiniteSets, TLC

VARIABLES
  allowAllOutbound,    \* managed group -> this.allowAllOutbound
  directIngressRules,  \* managed group -> this.directIngressRules
  directEgressRules,   \* managed group -> this.directEgressRules
  children,            \* group -> the child constructs of the group, in creation order
  props,               \* group -> the props object it was constructed or imported with
  call,                \* the last call made: operation, receiver and arguments
  thrown,              \* whether the last call ended by throwing
  nCalls,              \* number of calls made so far
  egressCalls,         \* managed group -> number of addEgressRule calls made on it
  egressReturns,       \* managed group -> number of those that returned normally
  securityGroupId,     \* group -> this.securityGroupId
  exported             \* what the last export() call returned

vars == <<allowAllOutbound, directIngressRules, directEgressRules, children,
          props, call, thrown, nCalls, egressCalls, egressReturns,
          securityGroupId, exported>>

\* Number of addIngressRule/addEgressRule calls in a run.
MaxCalls == 3

\* Number of such calls in a run that has several receivers.
MaxWideCalls == 2

----------------------------------------------------------------------------
(* JavaScript values *)

\* The value of an optional parameter that was not passed.
Undefined == <<"#undefined">>

\* a[k] === b[k] for two objects, a missing key reading as undefined.
FieldsEqual(a, b, k) ==
  /\ (k \in DOMAIN a) <=> (k \in DOMAIN b)
  /\ (k \in DOMAIN a) => (a[k] = b[k])

\* o[k] === v for a defined value v.
FieldIs(o, k, v) == (k \in DOMAIN o) /\ (o[k] = v)

\* { ...a, ...b }
Spread(a, b) ==
  [k \in (DOMAIN a) \cup (DOMAIN b) |-> IF k \in DOMAIN b THEN b[k] ELSE a[k]]

\* s.replace(from, to) with a string pattern: the first occurrence only.
RECURSIVE Replace(_, _, _)
Replace(s, from, to) ==
  IF s = <<>> THEN <<>>
  ELSE IF Head(s) = from THEN <<to>> \o Tail(s)
  ELSE <<Head(s)>> \o Replace(Tail(s), from, to)

----------------------------------------------------------------------------
(* The security groups of the program *)

ManagedGroups  == {"sg1", "sg2"}
ImportedGroups == {"imp"}
Groups == ManagedGroups \cup ImportedGroups

\* SecurityGroupImportProps values.
ImportPropsSet == {[securityGroupId |-> "sg-12345"]}

\* SecurityGroupProps values: allowAllOutbound is optional.
SecurityGroupPropsSet ==
  { [vpc |-> "vpc"],
    [vpc |-> "vpc", allowAllOutbound |-> TRUE],
    [vpc |-> "vpc", allowAllOutbound |-> FALSE] }

\* this.securityGroupId
SecurityGroupId(g) == securityGroupId[g]

\* A security group used as the peer of a rule.
GroupPeer(g) ==
  [ uniqueId      |-> <<g>>,
    canInlineRule |-> FALSE,
    ingress       |-> [sourceSecurityGroupId |-> SecurityGroupId(g)],
    egress        |-> [destinationSecurityGroupId |-> SecurityGroupId(g)] ]

----------------------------------------------------------------------------
(* Module constants *)

MATCH_NO_TRAFFIC ==
  [ cidrIp      |-> "255.255.255.255/32",
    description |-> <<"Disallow all traffic">>,
    ipProtocol  |-> "icmp",
    fromPort    |-> 252,
    toPort      |-> 86 ]

ALLOW_ALL_RULE ==
  [ cidrIp      |-> "0.0.0.0/0",
    description |-> <<"Allow all outbound traffic by default">>,
    ipProtocol  |-> "-1" ]

----------------------------------------------------------------------------
(* Rule comparison *)

\* Mutant: the description compared like every other field.
IngressRulesEqual_WithDescription(a, b) == a = b

IngressRulesEqual(a, b) ==
  /\ FieldsEqual(a, b, "cidrIp")
  /\ FieldsEqual(a, b, "cidrIpv6")
  /\ FieldsEqual(a, b, "fromPort")
  /\ FieldsEqual(a, b, "toPort")
  /\ FieldsEqual(a, b, "ipProtocol")
  /\ FieldsEqual(a, b, "sourceSecurityGroupId")
  /\ FieldsEqual(a, b, "sourceSecurityGroupName")
  /\ FieldsEqual(a, b, "sourceSecurityGroupOwnerId")

\* Mutant: the description compared like every other field.
EgressRulesEqual_WithDescription(a, b) == a = b

EgressRulesEqual(a, b) ==
  /\ FieldsEqual(a, b, "cidrIp")
  /\ FieldsEqual(a, b, "cidrIpv6")
  /\ FieldsEqual(a, b, "fromPort")
  /\ FieldsEqual(a, b, "toPort")
  /\ FieldsEqual(a, b, "ipProtocol")
  /\ FieldsEqual(a, b, "destinationPrefixListId")
  /\ FieldsEqual(a, b, "destinationSecurityGroupId")

\* Mutant: only the protocol tested.
IsAllTrafficRule_ProtocolOnly(rule) == FieldIs(rule, "ipProtocol", "-1")

\* Mutant: the rule compared with ALLOW_ALL_RULE, ports included.
IsAllTrafficRule_ByEquality(rule) ==
  /\ FieldsEqual(rule, ALLOW_ALL_RULE, "cidrIp")
  /\ FieldsEqual(rule, ALLOW_ALL_RULE, "ipProtocol")
  /\ FieldsEqual(rule, ALLOW_ALL_RULE, "fromPort")
  /\ FieldsEqual(rule, ALLOW_ALL_RULE, "toPort")

IsAllTrafficRule(rule) ==
  FieldIs(rule, "cidrIp", "0.0.0.0/0") /\ FieldIs(rule, "ipProtocol", "-1")

----------------------------------------------------------------------------
(* Private helpers of SecurityGroup, as functions of the list they act on *)

HasIngressRule(rules, rule) ==
  \E i \in 1..Len(rules) : IngressRulesEqual(rules[i], rule)

\* Mutant: a rule added again overwrites the entry it equals.
AddDirectIngressRule_Overwrites(rules, rule) ==
  IF ~HasIngressRule(rules, rule)
    THEN Append(rules, rule)
    ELSE [i \in 1..Len(rules) |->
            IF IngressRulesEqual(rules[i], rule) THEN rule ELSE rules[i]]

AddDirectIngressRule(rules, rule) ==
  IF ~HasIngressRule(rules, rule) THEN Append(rules, rule) ELSE rules

HasEgressRule(rules, rule) ==
  \E i \in 1..Len(rules) : EgressRulesEqual(rules[i], rule)

\* Mutant: the duplicate test inverted.
AddDirectEgressRule_Inverted(rules, rule) ==
  IF HasEgressRule(rules, rule) THEN Append(rules, rule) ELSE rules

AddDirectEgressRule(rules, rule) ==
  IF ~HasEgressRule(rules, rule) THEN Append(rules, rule) ELSE rules

\* Mutant: the two default rules swapped.
AddDefaultEgressRule_Swapped(rules, allowAll) ==
  IF allowAll THEN Append(rules, MATCH_NO_TRAFFIC) ELSE Append(rules, ALLOW_ALL_RULE)

\* Mutant: no explicit rule in allow-all mode (EC2 creates one anyway).
AddDefaultEgressRule_OnlyWhenDenied(rules, allowAll) ==
  IF allowAll THEN rules ELSE Append(rules, MATCH_NO_TRAFFIC)

AddDefaultEgressRule(rules, allowAll) ==
  IF allowAll THEN Append(rules, ALLOW_ALL_RULE) ELSE Append(rules, MATCH_NO_TRAFFIC)

\* rules.splice(i, 1): the list without its i-th entry.
Splice(rules, i) ==
  [j \in 1..(Len(rules) - 1) |-> IF j < i THEN rules[j] ELSE rules[j + 1]]

\* Mutant: the no-traffic rule is never removed.
RemoveNoTrafficRule_Keeps(rules) == rules

\* Mutant: "i > 0" for "i > -1", an entry found at index 0 is not removed.
RemoveNoTrafficRule_SkipsIndexZero(rules) ==
  LET found == {i \in 1..Len(rules) : EgressRulesEqual(rules[i], MATCH_NO_TRAFFIC)}
  IN  IF found # {} /\ (CHOOSE i \in found : \A j \in found : i <= j) > 1
        THEN Splice(rules, CHOOSE i \in found : \A j \in found : i <= j)
        ELSE rules

RemoveNoTrafficRule(rules) ==
  LET found == {i \in 1..Len(rules) : EgressRulesEqual(rules[i], MATCH_NO_TRAFFIC)}
  IN  IF found # {}
        THEN Splice(rules, CHOOSE i \in found : \A j \in found : i <= j)
        ELSE rules

----------------------------------------------------------------------------
(* Standalone rule resources: SecurityGroupBase *)

TryFindChild(kids, id) == {i \in 1..Len(kids) : kids[i].id = id}

\* Mutant: addIngressRule creates an egress resource.
BaseAddIngressRule_CreatesEgress(kids, g, peer, connection, description) ==
  LET id0  == <<"from ">> \o peer.uniqueId \o <<":">> \o connection.toString
      desc == IF description = Undefined THEN id0 ELSE description
      id   == Replace(id0, "/", "_")
  IN  IF TryFindChild(kids, id) = {}
        THEN Append(kids,
               [ id    |-> id,
                 type  |-> "CfnSecurityGroupEgress",
                 props |-> Spread(Spread([groupId |-> SecurityGroupId(g)], peer.ingress),
                                  Spread(connection.json, [description |-> desc])) ])
        ELSE kids

\* The children of group g after SecurityGroupBase.addIngressRule.
BaseAddIngressRule(kids, g, peer, connection, description) ==
  LET id0  == <<"from ">> \o peer.uniqueId \o <<":">> \o connection.toString
      desc == IF description = Undefined THEN id0 ELSE description
      id   == Replace(id0, "/", "_")
  IN  IF TryFindChild(kids, id) = {}
        THEN Append(kids,
               [ id    |-> id,
                 type  |-> "CfnSecurityGroupIngress",
                 props |-> Spread(Spread([groupId |-> SecurityGroupId(g)], peer.ingress),
                                  Spread(connection.json, [description |-> desc])) ])
        ELSE kids

\* Mutant: the egress resource gets the id of the ingress resource.
BaseAddEgressRule_IngressId(kids, g, peer, connection, description) ==
  LET id0  == <<"from ">> \o peer.uniqueId \o <<":">> \o connection.toString
      desc == IF description = Undefined THEN id0 ELSE description
      id   == Replace(id0, "/", "_")
  IN  IF TryFindChild(kids, id) = {}
        THEN Append(kids,
               [ id    |-> id,
                 type  |-> "CfnSecurityGroupEgress",
                 props |-> Spread(Spread([groupId |-> SecurityGroupId(g)], peer.egress),
                                  Spread(connection.json, [description |-> desc])) ])
        ELSE kids

\* The children of group g after SecurityGroupBase.addEgressRule.
BaseAddEgressRule(kids, g, peer, connection, description) ==
  LET id0  == <<"to ">> \o peer.uniqueId \o <<":">> \o connection.toString
      desc == IF description = Undefined THEN id0 ELSE description
      id   == Replace(id0, "/", "_")
  IN  IF TryFindChild(kids, id) = {}
        THEN Append(kids,
               [ id    |-> id,
                 type  |-> "CfnSecurityGroupEgress",
                 props |-> Spread(Spread([groupId |-> SecurityGroupId(g)], peer.egress),
                                  Spread(connection.json, [description |-> desc])) ])
        ELSE kids

----------------------------------------------------------------------------
(* Arguments of the calls: values of ISecurityGroupRule and IPortRange *)

AnyIPv4 ==
  [ uniqueId      |-> <<"0.0.0.0", "/", "0">>,
    canInlineRule |-> TRUE,
    ingress       |-> [cidrIp |-> "0.0.0.0/0"],
    egress        |-> [cidrIp |-> "0.0.0.0/0"] ]

Broadcast ==
  [ uniqueId      |-> <<"255.255.255.255", "/", "32">>,
    canInlineRule |-> TRUE,
    ingress       |-> [cidrIp |-> "255.255.255.255/32"],
    egress        |-> [cidrIp |-> "255.255.255.255/32"] ]

TcpPort80 ==
  [ toString      |-> <<"80">>,
    canInlineRule |-> TRUE,
    json          |-> [ipProtocol |-> "tcp", fromPort |-> 80, toPort |-> 80] ]

AllTraffic ==
  [ toString      |-> <<"ALL TRAFFIC">>,
    canInlineRule |-> TRUE,
    json          |-> [ipProtocol |-> "-1", fromPort |-> -1, toPort |-> -1] ]

IcmpTypeAndCode ==
  [ toString      |-> <<"ICMP Type 252 Code 86">>,
    canInlineRule |-> TRUE,
    json          |-> [ipProtocol |-> "icmp", fromPort |-> 252, toPort |-> 86] ]

Peers == {AnyIPv4, Broadcast, GroupPeer("sg2")}
Connections == {TcpPort80, AllTraffic, IcmpTypeAndCode}
Descriptions == {Undefined, <<"dup">>}

\* The groups that receive calls.
Receivers == {"sg1"}

----------------------------------------------------------------------------
(* Construction *)

\* The children a group has after its constructor: a managed group owns its
\* CfnSecurityGroup resource.
InitialChildren(g) ==
  IF g \in ManagedGroups
    THEN << [id |-> <<"Resource">>, type |-> "CfnSecurityGroup",
             props |-> [vpcId |-> "vpc"]] >>
    ELSE << >>

\* Mutant: "=== true" for "!== false".
AllowAllOutboundOf_OnlyTrue(p) == FieldIs(p, "allowAllOutbound", TRUE)

\* this.allowAllOutbound = props.allowAllOutbound !== false
AllowAllOutboundOf(p) == ~FieldIs(p, "allowAllOutbound", FALSE)

NoCall == [op |-> "none"]

\* No export() call made yet.
NoExport == [op |-> "none"]

\* The props the groups can be created with: a managed group in `free` with
\* any SecurityGroupProps, every other managed group deny-by-default, an
\* imported group with any of importProps.
PropsChoices(free, importProps) ==
  { p \in [Groups -> SecurityGroupPropsSet \cup importProps] :
      /\ \A g \in ManagedGroups : p[g] \in SecurityGroupPropsSet
      /\ \A g \in ImportedGroups : p[g] \in importProps
      /\ \A g \in ManagedGroups \ free :
           p[g] = [vpc |-> "vpc", allowAllOutbound |-> FALSE] }

\* The state after the constructors have run with props p.
Constructed(p) ==
  /\ props = p
  /\ securityGroupId =
       [g \in Groups |-> IF g \in ImportedGroups THEN p[g].securityGroupId
                                                 ELSE g \o ".GroupId"]
  /\ allowAllOutbound = [g \in ManagedGroups |-> AllowAllOutboundOf(p[g])]
  /\ directIngressRules = [g \in ManagedGroups |-> << >>]
  /\ directEgressRules =
       [g \in ManagedGroups |-> AddDefaultEgressRule(<< >>, AllowAllOutboundOf(p[g]))]
  /\ children = [g \in Groups |-> InitialChildren(g)]
  /\ call = NoCall
  /\ thrown = FALSE
  /\ nCalls = 0
  /\ egressCalls = [g \in ManagedGroups |-> 0]
  /\ egressReturns = [g \in ManagedGroups |-> 0]
  /\ exported = NoExport

Init == \E p \in PropsChoices(Receivers, ImportPropsSet) : Constructed(p)

----------------------------------------------------------------------------
(* Operations *)

\* The description an inline rule gets: the one passed, or the default.
\* (addEgressRule's default also starts with "from".)
InlineDescription(peer, connection, description) ==
  IF description = Undefined
    THEN <<"from ">> \o peer.uniqueId \o <<":">> \o connection.toString
    ELSE description

\* The rule SecurityGroup.addIngressRule builds for an inline peer and connection.
IngressRuleOf(peer, connection, description) ==
  Spread(Spread(peer.ingress, connection.json),
         [description |-> InlineDescription(peer, connection, description)])

\* The rule SecurityGroup.addEgressRule builds for an inline peer and connection.
EgressRuleOf(peer, connection, description) ==
  Spread(Spread(peer.egress, connection.json),
         [description |-> InlineDescription(peer, connection, description)])

\* Mutant: addIngressRule goes standalone only when neither the peer nor the
\* port range can be inlined.
SecurityGroupAddIngressRule_InlineIfEither(g, peer, connection, description) ==
  IF ~peer.canInlineRule /\ ~connection.canInlineRule
    THEN [ directIngressRules |-> directIngressRules[g],
           children |-> BaseAddIngressRule(children[g], g, peer, connection, description) ]
    ELSE [ directIngressRules |->
             AddDirectIngressRule(directIngressRules[g],
                                  IngressRuleOf(peer, connection, description)),
           children |-> children[g] ]

\* SecurityGroup.addIngressRule on managed group g: the lists it leaves.
SecurityGroupAddIngressRule(g, peer, connection, description) ==
  IF ~peer.canInlineRule \/ ~connection.canInlineRule
    THEN [ directIngressRules |-> directIngressRules[g],
           children |-> BaseAddIngressRule(children[g], g, peer, connection, description) ]
    ELSE [ directIngressRules |->
             AddDirectIngressRule(directIngressRules[g],
                                  IngressRuleOf(peer, connection, description)),
           children |-> children[g] ]

\* SecurityGroup.addEgressRule past its allowAllOutbound test: the no-traffic
\* rule is removed first, then the rule is routed, checked and added.
AddEgressRuleDenyByDefault(g, peer, connection, description) ==
  LET removed == RemoveNoTrafficRule(directEgressRules[g])
      rule    == EgressRuleOf(peer, connection, description)
  IN  IF ~peer.canInlineRule \/ ~connection.canInlineRule
        THEN [ directEgressRules |-> removed,
               children |-> BaseAddEgressRule(children[g], g, peer, connection,
                                              description),
               thrown |-> FALSE ]
      ELSE IF IsAllTrafficRule(rule)
        THEN [ directEgressRules |-> removed,
               children |-> children[g],
               thrown |-> TRUE ]
      ELSE [ directEgressRules |-> AddDirectEgressRule(removed, rule),
             children |-> children[g],
             thrown |-> FALSE ]

\* Mutant: addEgressRule without its early return in allow-all mode.
SecurityGroupAddEgressRule_NoEarlyReturn(g, peer, connection, description) ==
  AddEgressRuleDenyByDefault(g, peer, connection, description)

\* Mutant: the inline test made before the allowAllOutbound test.
SecurityGroupAddEgressRule_RoutesFirst(g, peer, connection, description) ==
  IF ~peer.canInlineRule \/ ~connection.canInlineRule
    THEN [ directEgressRules |-> directEgressRules[g],
           children |-> BaseAddEgressRule(children[g], g, peer, connection,
                                          description),
           thrown |-> FALSE ]
  ELSE IF allowAllOutbound[g]
    THEN [ directEgressRules |-> directEgressRules[g],
           children |-> children[g],
           thrown |-> FALSE ]
    ELSE AddEgressRuleDenyByDefault(g, peer, connection, description)

\* SecurityGroup.addEgressRule on managed group g: the lists it leaves and
\* whether it throws.
SecurityGroupAddEgressRule(g, peer, connection, description) ==
  IF allowAllOutbound[g]
    THEN [ directEgressRules |-> directEgressRules[g],
           children |-> children[g],
           thrown |-> FALSE ]
    ELSE AddEgressRuleDenyByDefault(g, peer, connection, description)

\* Bookkeeping common to every call: what was called, and the call count.
Called(op, g, peer, connection, description) ==
  /\ nCalls < MaxCalls
  /\ nCalls' = nCalls + 1
  /\ call' = [op |-> op, group |-> g, peer |-> peer, connection |-> connection,
              description |-> description]

\* g.addIngressRule(peer, connection, description)
AddIngressRule(g, peer, connection, description) ==
  /\ Called("addIngressRule", g, peer, connection, description)
  /\ thrown' = FALSE
  /\ UNCHANGED <<allowAllOutbound, directEgressRules, props, egressCalls, egressReturns,
                 securityGroupId, exported>>
  /\ IF g \in ImportedGroups
       THEN /\ children' = [children EXCEPT ![g] =
                  BaseAddIngressRule(children[g], g, peer, connection, description)]
            /\ UNCHANGED directIngressRules
       ELSE LET r == SecurityGroupAddIngressRule(g, peer, connection, description)
            IN  /\ directIngressRules' = [directIngressRules EXCEPT ![g] =
                                            r.directIngressRules]
                /\ children' = [children EXCEPT ![g] = r.children]

\* Mutant: directEgressRules is one list shared by every SecurityGroup.
AddEgressRule_SharedList(g, peer, connection, description) ==
  /\ Called("addEgressRule", g, peer, connection, description)
  /\ UNCHANGED <<allowAllOutbound, directIngressRules, props, securityGroupId, exported>>
  /\ IF g \in ImportedGroups
       THEN /\ children' = [children EXCEPT ![g] =
                  BaseAddEgressRule(children[g], g, peer, connection, description)]
            /\ thrown' = FALSE
            /\ UNCHANGED <<directEgressRules, egressCalls, egressReturns>>
       ELSE LET r == SecurityGroupAddEgressRule(g, peer, connection, description)
            IN  /\ directEgressRules' = [h \in ManagedGroups |-> r.directEgressRules]
                /\ children' = [children EXCEPT ![g] = r.children]
                /\ thrown' = r.thrown
                /\ egressCalls' = [egressCalls EXCEPT ![g] = @ + 1]
                /\ egressReturns' = [egressReturns EXCEPT ![g] =
                                       IF r.thrown THEN @ ELSE @ + 1]

\* g.addEgressRule(peer, connection, description)
AddEgressRule(g, peer, connection, description) ==
  /\ Called("addEgressRule", g, peer, connection, description)
  /\ UNCHANGED <<allowAllOutbound, directIngressRules, props, securityGroupId, exported>>
  /\ IF g \in ImportedGroups
       THEN /\ children' = [children EXCEPT ![g] =
                  BaseAddEgressRule(children[g], g, peer, connection, description)]
            /\ thrown' = FALSE
            /\ UNCHANGED <<directEgressRules, egressCalls, egressReturns>>
       ELSE LET r == SecurityGroupAddEgressRule(g, peer, connection, description)
            IN  /\ directEgressRules' = [directEgressRules EXCEPT ![g] =
                                           r.directEgressRules]
                /\ children' = [children EXCEPT ![g] = r.children]
                /\ thrown' = r.thrown
                /\ egressCalls' = [egressCalls EXCEPT ![g] = @ + 1]
                /\ egressReturns' = [egressReturns EXCEPT ![g] =
                                       IF r.thrown THEN @ ELSE @ + 1]

Next ==
  \/ \E g \in Receivers, peer \in Peers, connection \in Connections,
        description \in Descriptions :
       AddIngressRule(g, peer, connection, description)
  \/ \E g \in Receivers, peer \in Peers, connection \in Connections,
        description \in Descriptions :
       AddEgressRule(g, peer, connection, description)

Spec == Init /\ [][Next]_vars

----------------------------------------------------------------------------
(* Imported groups: calls on a managed and on an imported group, export() *)

\* A port range that cannot be inlined: its port is a token resolved later.
TcpPortFromAttribute ==
  [ toString      |-> <<"{IndirectPort}">>,
    canInlineRule |-> FALSE,
    json          |-> [ipProtocol |-> "tcp", fromPort |-> "${Token}",
                       toPort |-> "${Token}"] ]

ImportPropsWide ==
  {[securityGroupId |-> "sg-12345"], [securityGroupId |-> "sg-67890"]}

ImportReceivers   == {"sg1", "imp"}
ImportPeers       == {AnyIPv4, GroupPeer("sg2"), GroupPeer("imp")}
ImportConnections == {TcpPort80, TcpPortFromAttribute}

\* Mutant: the imported group exports like a managed one, through an Output.
ImportedExport_ThroughOutput(g) ==
  [securityGroupId |-> "Fn::ImportValue(" \o securityGroupId[g] \o ")"]

\* ImportedSecurityGroup.export(): what it returns.
ImportedExport(g) == props[g]

\* g.export() on an imported group
Export(g) ==
  /\ g \in ImportedGroups
  /\ exported' = [op |-> "export", group |-> g, value |-> ImportedExport(g)]
  /\ UNCHANGED <<allowAllOutbound, directIngressRules, directEgressRules, children,
                 props, call, thrown, nCalls, egressCalls, egressReturns,
                 securityGroupId>>

InitImport == \E p \in PropsChoices({"sg1"}, ImportPropsWide) : Constructed(p)

NextImport ==
  \/ \E g \in ImportReceivers, peer \in ImportPeers, connection \in ImportConnections,
        description \in Descriptions :
       nCalls < MaxWideCalls /\ AddIngressRule(g, peer, connection, description)
  \/ \E g \in ImportReceivers, peer \in ImportPeers, connection \in ImportConnections,
        description \in Descriptions :
       nCalls < MaxWideCalls /\ AddEgressRule(g, peer, connection, description)
  \/ \E g \in ImportedGroups : Export(g)

SpecImport == InitImport /\ [][NextImport]_vars

----------------------------------------------------------------------------
(* Two managed groups, in any mix of modes, each the peer of the other *)

TwoReceivers   == {"sg1", "sg2"}
TwoPeers       == {AnyIPv4, GroupPeer("sg1"), GroupPeer("sg2")}
TwoConnections == {TcpPort80, AllTraffic}

InitTwo == \E p \in PropsChoices(TwoReceivers, ImportPropsSet) : Constructed(p)

NextTwo ==
  \/ \E g \in TwoReceivers, peer \in TwoPeers, connection \in TwoConnections :
       nCalls < MaxWideCalls /\ AddIngressRule(g, peer, connection, Undefined)
  \/ \E g \in TwoReceivers, peer \in TwoPeers, connection \in TwoConnections :
       nCalls < MaxWideCalls /\ AddEgressRule(g, peer, connection, Undefined)

SpecTwo == InitTwo /\ [][NextTwo]_vars

----------------------------------------------------------------------------
(* Vocabulary of the properties *)

\* Group g was constructed with props.allowAllOutbound = v.
ConstructedWith(g, v) == FieldIs(props[g], "allowAllOutbound", v)

\* Two rules agree on every field other than description.
EqualExceptDescription(a, b) ==
  /\ (DOMAIN a) \ {"description"} = (DOMAIN b) \ {"description"}
  /\ \A k \in (DOMAIN a) \ {"description"} : a[k] = b[k]

\* The last call was op on group g.
LastCallWas(op, g) == call.op = op /\ call.group = g

\* The last call's peer and port range can both be inlined.
LastCallInline == call.peer.canInlineRule /\ call.connection.canInlineRule

----------------------------------------------------------------------------
(* Properties *)

\* C1: a group constructed with allowAllOutbound = true has, in every
\* reachable state, a direct egress list of exactly one entry, the ALLOW_ALL
\* rule (0.0.0.0/0, protocol -1), whatever calls were made on it.
C1_AllowAllEgressFixed ==
  \A g \in ManagedGroups :
    ConstructedWith(g, TRUE) =>
      /\ Len(directEgressRules[g]) = 1
      /\ directEgressRules[g][1] = ALLOW_ALL_RULE
      /\ FieldIs(directEgressRules[g][1], "cidrIp", "0.0.0.0/0")
      /\ FieldIs(directEgressRules[g][1], "ipProtocol", "-1")

\* C1 witness: an allow-all group after several addEgressRule calls, the last
\* one with an inline peer and port range, and at least one ingress rule.
C1_Witness ==
  /\ ConstructedWith("sg1", TRUE)
  /\ egressCalls["sg1"] >= 2
  /\ LastCallWas("addEgressRule", "sg1") /\ LastCallInline
  /\ Len(directIngressRules["sg1"]) >= 1

\* C2 (as claimed): on a group constructed with allowAllOutbound = false, an
\* addEgressRule call whose rule has CIDR 0.0.0.0/0 and protocol -1 raises
\* the error and leaves the direct egress list as it was before the call.
C2_AllTrafficErrorLeavesEgressUnchanged ==
  [][ \A g \in ManagedGroups :
        ( /\ call'.op = "addEgressRule" /\ call'.group = g
          /\ nCalls' = nCalls + 1
          /\ ConstructedWith(g, FALSE)
          /\ call'.peer.canInlineRule /\ call'.connection.canInlineRule
          /\ FieldIs(call'.peer.egress, "cidrIp", "0.0.0.0/0")
          /\ FieldIs(call'.connection.json, "ipProtocol", "-1") )
        => ( thrown' /\ directEgressRules'[g] = directEgressRules[g] ) ]_vars

\* The last call was the first addEgressRule call on g to return normally.
FirstEgressReturn(g) ==
  LastCallWas("addEgressRule", g) /\ ~thrown /\ egressReturns[g] = 1

\* The rule addEgressRule builds from the last call's arguments.
LastEgressRule == EgressRuleOf(call.peer, call.connection, call.description)

\* The rule addIngressRule builds from the last call's arguments.
LastIngressRule == IngressRuleOf(call.peer, call.connection, call.description)

\* The standalone egress resources of group g.
EgressResources(g) ==
  {i \in 1..Len(children[g]) : children[g][i].type = "CfnSecurityGroupEgress"}

\* C3 (as claimed): on a group constructed with allowAllOutbound = false the
\* egress list is [MATCH_NO_TRAFFIC] right after construction, and after the
\* first addEgressRule call that returns without error it has no entry equal
\* to MATCH_NO_TRAFFIC and contains the rule built from that call.
C3_Original ==
  \A g \in ManagedGroups :
    ConstructedWith(g, FALSE) =>
      /\ (nCalls = 0 => directEgressRules[g] = <<MATCH_NO_TRAFFIC>>)
      /\ FirstEgressReturn(g) =>
           /\ \A i \in 1..Len(directEgressRules[g]) :
                ~EqualExceptDescription(directEgressRules[g][i], MATCH_NO_TRAFFIC)
           /\ \E i \in 1..Len(directEgressRules[g]) :
                directEgressRules[g][i] = LastEgressRule

\* C3 (amended): on a group constructed with allowAllOutbound = false the
\* egress list is [MATCH_NO_TRAFFIC] right after construction; after the first
\* addEgressRule call that returns without error the construction-time entry
\* is gone: with an inline-capable peer and port range the list is exactly
\* [the rule built from that call] (a rule that may itself equal
\* MATCH_NO_TRAFFIC up to description), otherwise the list is empty and the
\* rule is a standalone egress resource.
C3_FirstEgressReturnReplacesSentinel ==
  \A g \in ManagedGroups :
    ConstructedWith(g, FALSE) =>
      /\ (nCalls = 0 => directEgressRules[g] = <<MATCH_NO_TRAFFIC>>)
      /\ FirstEgressReturn(g) =>
           IF LastCallInline
             THEN directEgressRules[g] = <<LastEgressRule>>
             ELSE /\ directEgressRules[g] = << >>
                  /\ \E i \in EgressResources(g) :
                       FieldsEqual(children[g][i].props, call.peer.egress,
                                   "destinationSecurityGroupId")

\* C3 witness: a deny-by-default group whose first normally returning
\* addEgressRule call, an inline one, came after a call that threw.
C3_Witness ==
  /\ ConstructedWith("sg1", FALSE)
  /\ FirstEgressReturn("sg1") /\ LastCallInline
  /\ egressCalls["sg1"] = 2

\* A rule that is one of the two sentinels, up to description.
IsSentinel(rule) ==
  \/ EqualExceptDescription(rule, ALLOW_ALL_RULE)
  \/ EqualExceptDescription(rule, MATCH_NO_TRAFFIC)

EntriesFor(rules, rule) ==
  {i \in 1..Len(rules) : EqualExceptDescription(rules[i], rule)}

\* C6: addIngressRule is idempotent up to description: no ingress list holds
\* two entries that agree on every field other than description, and after
\* an addIngressRule call with inline-capable peer and port range the list
\* holds exactly one entry for the rule of that call.
C6_IngressIdempotentUpToDescription ==
  \A g \in ManagedGroups :
    /\ \A i, j \in 1..Len(directIngressRules[g]) :
         EqualExceptDescription(directIngressRules[g][i], directIngressRules[g][j])
           => i = j
    /\ (LastCallWas("addIngressRule", g) /\ LastCallInline) =>
         Cardinality(EntriesFor(directIngressRules[g], LastIngressRule)) = 1

\* C6 witness: two addIngressRule calls with the same peer and port range,
\* the second with the description "dup", have left one ingress entry.
C6_Witness ==
  /\ nCalls = 2 /\ egressCalls["sg1"] = 0
  /\ LastCallWas("addIngressRule", "sg1") /\ LastCallInline
  /\ call.description = <<"dup">>
  /\ Len(directIngressRules["sg1"]) = 1
  /\ EqualExceptDescription(directIngressRules["sg1"][1], LastIngressRule)
  /\ directIngressRules["sg1"][1].description # <<"dup">>

\* C7: no call changes an entry that is already in an ingress list: every
\* entry stays at its place with all its fields, so a rule added again under
\* another description keeps the description it was first added with.
C7_IngressEntriesKeepDescription ==
  [][ \A g \in ManagedGroups :
        \A i \in 1..Len(directIngressRules[g]) :
          /\ i <= Len(directIngressRules'[g])
          /\ directIngressRules'[g][i] = directIngressRules[g][i] ]_vars

\* C7 witness: a rule first added with the description "dup" was added again
\* without a description, and its entry still carries "dup".
C7_Witness ==
  /\ LastCallWas("addIngressRule", "sg1") /\ LastCallInline
  /\ call.description = Undefined
  /\ \E i \in EntriesFor(directIngressRules["sg1"], LastIngressRule) :
       directIngressRules["sg1"][i].description = <<"dup">>

\* C8: on a group constructed with allowAllOutbound = false the egress list
\* never holds two entries that agree on every field other than description;
\* after a normally returning addEgressRule call with inline-capable peer and
\* port range it holds exactly one entry for the rule of that call.
C8_EgressNoDuplicates ==
  \A g \in ManagedGroups :
    ConstructedWith(g, FALSE) =>
      /\ \A i, j \in 1..Len(directEgressRules[g]) :
           EqualExceptDescription(directEgressRules[g][i], directEgressRules[g][j])
             => i = j
      /\ (LastCallWas("addEgressRule", g) /\ LastCallInline /\ ~thrown) =>
           Cardinality(EntriesFor(directEgressRules[g], LastEgressRule)) = 1

\* C8 witness: addEgress(peer, tcp 80-80) followed by
\* addEgress(peer, tcp 80-80, "dup") has left an egress list of length 1
\* holding that rule under its first description.
C8_Witness ==
  /\ ConstructedWith("sg1", FALSE)
  /\ nCalls = 2 /\ egressCalls["sg1"] = 2 /\ egressReturns["sg1"] = 2
  /\ LastCallInline /\ call.connection = TcpPort80
  /\ call.description = <<"dup">>
  /\ Len(directEgressRules["sg1"]) = 1
  /\ EqualExceptDescription(directEgressRules["sg1"][1], LastEgressRule)
  /\ directEgressRules["sg1"][1].description # <<"dup">>

C10_OnlyAllTrafficEgressThrows ==
  thrown =>
    /\ call.op = "addEgressRule"
    /\ ConstructedWith(call.group, FALSE)
    /\ FieldIs(call.peer.egress, "cidrIp", "0.0.0.0/0")
    /\ FieldIs(call.connection.json, "ipProtocol", "-1")

\* C10 witness: addIngressRule for 0.0.0.0/0 with protocol -1 has returned
\* normally on a deny-by-default group, after an addEgressRule call for
\* another CIDR with protocol -1 that returned normally too.
C10_Witness ==
  /\ ConstructedWith("sg1", FALSE)
  /\ LastCallWas("addIngressRule", "sg1") /\ ~thrown
  /\ call.peer = AnyIPv4 /\ call.connection = AllTraffic
  /\ \E i \in 1..Len(directEgressRules["sg1"]) :
       /\ FieldIs(directEgressRules["sg1"][i], "ipProtocol", "-1")
       /\ FieldIs(directEgressRules["sg1"][i], "cidrIp", "255.255.255.255/32")

\* C11: a group constructed without an allowAllOutbound value is in
\* allow-all mode like one constructed with true: its egress list is
\* [ALLOW_ALL] in every reachable state and no addEgressRule call on it
\* throws; a group is in deny-by-default mode exactly when it was constructed
\* with the value false.
C11_DefaultIsAllowAll ==
  \A g \in ManagedGroups :
    /\ "allowAllOutbound" \notin DOMAIN props[g] =>
         /\ allowAllOutbound[g]
         /\ directEgressRules[g] = <<ALLOW_ALL_RULE>>
         /\ LastCallWas("addEgressRule", g) => ~thrown
    /\ ~allowAllOutbound[g] <=> ConstructedWith(g, FALSE)

\* C11 witness: a group constructed without the value has received several
\* addEgressRule calls, the last one for 0.0.0.0/0 with protocol -1, which
\* returned normally.
C11_Witness ==
  /\ "allowAllOutbound" \notin DOMAIN props["sg1"]
  /\ egressCalls["sg1"] >= 2
  /\ LastCallWas("addEgressRule", "sg1") /\ ~thrown
  /\ call.peer = AnyIPv4 /\ call.connection = AllTraffic

\* C13 (as claimed): a group constructed with allowAllOutbound = false has, in
\* every reachable state, at least one egress rule of some kind: the
\* MATCH_NO_TRAFFIC sentinel, an inline rule in the direct egress list, or a
\* standalone egress resource.
C13_DenyByDefaultKeepsAnEgressRule ==
  \A g \in ManagedGroups :
    ConstructedWith(g, FALSE) =>
      \/ EntriesFor(directEgressRules[g], MATCH_NO_TRAFFIC) # {}
      \/ Len(directEgressRules[g]) >= 1
      \/ EgressResources(g) # {}

\* s is a prefix of t.
IsPrefix(s, t) == Len(s) <= Len(t) /\ SubSeq(t, 1, Len(s)) = s

\* An entry other than the sentinel pushed by the constructor.
NotInitialSentinel(rule) == rule # MATCH_NO_TRAFFIC

\* C14 (as claimed): rule lists are append-only: after any call the ingress
\* list has the previous ingress list as a prefix, and the egress list is the
\* previous egress list, with at most the constructor's sentinel removed and
\* at most one rule appended at the end; a rule a caller added is never
\* removed or reordered.
C14_RuleListsAppendOnly ==
  [][ \A g \in ManagedGroups :
        /\ IsPrefix(directIngressRules[g], directIngressRules'[g])
        /\ \E base \in { directEgressRules[g],
                         SelectSeq(directEgressRules[g], NotInitialSentinel) } :
             /\ IsPrefix(base, directEgressRules'[g])
             /\ Len(directEgressRules'[g]) <= Len(base) + 1 ]_vars

\* A rule with CIDR 0.0.0.0/0 and protocol -1, whatever else it holds.
AllTrafficFields(o) ==
  FieldIs(o, "cidrIp", "0.0.0.0/0") /\ FieldIs(o, "ipProtocol", "-1")

\* C15: on a group constructed with allowAllOutbound = false the direct
\* egress list never holds an entry with CIDR 0.0.0.0/0 and protocol -1, and
\* an addEgressRule call with inline-capable peer and port range that builds
\* such a rule has thrown.
C15_NoAllTrafficEntryWhenDenied ==
  \A g \in ManagedGroups :
    ConstructedWith(g, FALSE) =>
      /\ \A i \in 1..Len(directEgressRules[g]) :
           ~AllTrafficFields(directEgressRules[g][i])
      /\ ( /\ LastCallWas("addEgressRule", g) /\ LastCallInline
           /\ AllTrafficFields(Spread(call.peer.egress, call.connection.json)) )
         => thrown

\* C15 witness: on a deny-by-default group that already holds a real egress
\* rule, addEgressRule for 0.0.0.0/0 with protocol -1 and a description has
\* thrown.
C15_Witness ==
  /\ ConstructedWith("sg1", FALSE)
  /\ LastCallWas("addEgressRule", "sg1") /\ thrown
  /\ call.description = <<"dup">>
  /\ Len(directEgressRules["sg1"]) >= 1
  /\ egressReturns["sg1"] >= 1

\* C16: in allow-all mode addEgressRule changes nothing: the direct ingress
\* list, the direct egress list and the children of the group (so also its
\* standalone resources) are the same after the call, for inline-capable and
\* other peers alike.
C16_AllowAllEgressCallChangesNothing ==
  [][ \A g \in ManagedGroups :
        (call'.op = "addEgressRule" /\ call'.group = g /\ allowAllOutbound[g]) =>
          /\ directIngressRules'[g] = directIngressRules[g]
          /\ directEgressRules'[g] = directEgressRules[g]
          /\ children'[g] = children[g]
          /\ ~thrown' ]_vars

\* C16 witness: an allow-all group after an addEgressRule call with a
\* security group as peer: no standalone egress resource exists.
C16_Witness ==
  /\ allowAllOutbound["sg1"]
  /\ LastCallWas("addEgressRule", "sg1") /\ ~call.peer.canInlineRule
  /\ EgressResources("sg1") = {}
  /\ Len(directIngressRules["sg1"]) >= 1

\* C12: an imported group has the securityGroupId of the props it was
\* imported with, and export() returns those props unchanged, in every
\* reachable state, whatever calls were made on the group.
C12_ImportExportRoundTrip ==
  \A g \in ImportedGroups :
    /\ securityGroupId[g] = props[g].securityGroupId
    /\ props[g] \in ImportPropsWide
    /\ (exported.op = "export" /\ exported.group = g) => exported.value = props[g]

\* C12 witness: export() was called on a group imported as "sg-67890" that
\* has received calls which created standalone resources.
C12_Witness ==
  /\ props["imp"].securityGroupId = "sg-67890"
  /\ exported.op = "export" /\ exported.group = "imp"
  /\ nCalls >= 2 /\ call.group = "imp"
  /\ Len(children["imp"]) >= 2
  /\ \A i \in 1..Len(children["imp"]) : children["imp"][i].props.groupId = "sg-67890"

\* The step is a call of op on group g.
CallStep(op, g) == nCalls' = nCalls + 1 /\ call'.op = op /\ call'.group = g

\* The construct id of the standalone rule resource for a peer and port range;
\* prefix is "from " for ingress and "to " for egress.
ResourceId(prefix, peer, connection) ==
  Replace(<<prefix>> \o peer.uniqueId \o <<":">> \o connection.toString, "/", "_")

\* The positions in kids of resources of the given type and id.
Resources(kids, type, id) ==
  {i \in 1..Len(kids) : kids[i].type = type /\ kids[i].id = id}

\* Every entry of list new is an entry of list old.
GainsNoRule(old, new) ==
  \A i \in 1..Len(new) : \E j \in 1..Len(old) : old[j] = new[i]

\* C17 (as claimed): on a managed group a call whose peer or port range
\* cannot be inlined adds no rule to the direct lists and leaves a standalone
\* rule resource for that peer and port range; a direct list gains a rule only
\* when both can be inlined; on an imported group every call leaves such a
\* standalone resource.
C17_Original ==
  [][ \A g \in Groups :
        LET inline == call'.peer.canInlineRule /\ call'.connection.canInlineRule
            fromId == ResourceId("from ", call'.peer, call'.connection)
            toId   == ResourceId("to ", call'.peer, call'.connection)
        IN  /\ (CallStep("addIngressRule", g) /\ (g \in ImportedGroups \/ ~inline)) =>
                 Resources(children'[g], "CfnSecurityGroupIngress", fromId) # {}
            /\ (CallStep("addEgressRule", g) /\ (g \in ImportedGroups \/ ~inline)) =>
                 Resources(children'[g], "CfnSecurityGroupEgress", toId) # {}
            /\ (g \in ManagedGroups /\ nCalls' = nCalls + 1 /\ call'.group = g /\ ~inline) =>
                 /\ GainsNoRule(directIngressRules[g], directIngressRules'[g])
                 /\ GainsNoRule(directEgressRules[g], directEgressRules'[g]) ]_vars

\* C17 (amended): as claimed, except that addEgressRule on a managed group in
\* allow-all mode creates no standalone resource (it changes nothing).  In
\* every other call whose peer or port range cannot be inlined, and in every
\* call on an imported group, the direct lists gain no rule and afterwards
\* exactly one standalone resource of the call's kind exists for the peer and
\* port range: it is appended to the children when none existed, and the
\* children are unchanged when one did.  A call on a managed group with
\* inline-capable peer and port range leaves the children unchanged.
C17_InlineOrStandalone ==
  [][ \A g \in Groups :
        LET inline == call'.peer.canInlineRule /\ call'.connection.canInlineRule
            fromId == ResourceId("from ", call'.peer, call'.connection)
            toId   == ResourceId("to ", call'.peer, call'.connection)
            Routed(type, id) ==
              /\ Cardinality(Resources(children'[g], type, id)) = 1
              /\ IF Resources(children[g], type, id) = {}
                   THEN /\ Len(children'[g]) = Len(children[g]) + 1
                        /\ SubSeq(children'[g], 1, Len(children[g])) = children[g]
                        /\ Resources(children'[g], type, id) = {Len(children'[g])}
                   ELSE children'[g] = children[g]
        IN  /\ (CallStep("addIngressRule", g) /\ (g \in ImportedGroups \/ ~inline)) =>
                 Routed("CfnSecurityGroupIngress", fromId)
            /\ ( /\ CallStep("addEgressRule", g)
                 /\ \/ g \in ImportedGroups
                    \/ ~inline /\ ~allowAllOutbound[g] ) =>
                 Routed("CfnSecurityGroupEgress", toId)
            /\ (CallStep("addEgressRule", g) /\ g \in ManagedGroups /\ allowAllOutbound[g]) =>
                 children'[g] = children[g]
            /\ (g \in ManagedGroups /\ nCalls' = nCalls + 1 /\ call'.group = g) =>
                 IF inline
                   THEN children'[g] = children[g]
                   ELSE /\ GainsNoRule(directIngressRules[g], directIngressRules'[g])
                        /\ GainsNoRule(directEgressRules[g], directEgressRules'[g]) ]_vars

\* C17 witness: a deny-by-default managed group whose addEgressRule call with
\* an imported group as peer and an inline-capable port range left the direct
\* egress list empty and one standalone egress resource, while the imported
\* group holds a standalone resource of its own.
C17_Witness ==
  /\ ConstructedWith("sg1", FALSE)
  /\ LastCallWas("addEgressRule", "sg1")
  /\ call.peer = GroupPeer("imp") /\ call.connection = TcpPort80
  /\ directEgressRules["sg1"] = << >>
  /\ Resources(children["sg1"], "CfnSecurityGroupEgress",
               ResourceId("to ", call.peer, call.connection)) # {}
  /\ Len(children["imp"]) = Len(InitialChildren("imp")) + 1

\* The call of this step takes the standalone path on group g.
StandaloneStep(op, g) ==
  /\ CallStep(op, g)
  /\ \/ g \in ImportedGroups
     \/ /\ ~(call'.peer.canInlineRule /\ call'.connection.canInlineRule)
        /\ ~(op = "addEgressRule" /\ allowAllOutbound[g])

\* C18: every group holds at most one standalone ingress resource and at most
\* one standalone egress resource per resource id, that is per peer uniqueId
\* and port-range string; no step changes or
\* removes a resource that exists; a call on the standalone path for a peer
\* and port range that already have a resource of the call's kind leaves the
\* children as they are, so the first description stays; and such a call
\* always leaves a resource of its own kind, whether or not a resource of the
\* other kind exists for the same peer and port range.
C18_StandaloneDedup ==
  [][ \A g \in Groups :
        LET fromId == ResourceId("from ", call'.peer, call'.connection)
            toId   == ResourceId("to ", call'.peer, call'.connection)
        IN  /\ \A i, j \in 1..Len(children'[g]) :
                 ( /\ children'[g][i].type = children'[g][j].type
                   /\ children'[g][i].id = children'[g][j].id ) => i = j
            /\ IsPrefix(children[g], children'[g])
            /\ StandaloneStep("addIngressRule", g) =>
                 /\ Resources(children'[g], "CfnSecurityGroupIngress", fromId) # {}
                 /\ Resources(children[g], "CfnSecurityGroupIngress", fromId) # {} =>
                      children'[g] = children[g]
            /\ StandaloneStep("addEgressRule", g) =>
                 /\ Resources(children'[g], "CfnSecurityGroupEgress", toId) # {}
                 /\ Resources(children[g], "CfnSecurityGroupEgress", toId) # {} =>
                      children'[g] = children[g] ]_vars

\* C18 witness: the imported group received addEgressRule with description
\* "dup" and then the same call without a description: it holds one egress
\* resource for that peer and port range, still described "dup".
C18_Witness ==
  /\ nCalls = 2 /\ LastCallWas("addEgressRule", "imp")
  /\ call.description = Undefined
  /\ Len(children["imp"]) = Len(InitialChildren("imp")) + 1
  /\ \E i \in Resources(children["imp"], "CfnSecurityGroupEgress",
                         ResourceId("to ", call.peer, call.connection)) :
       children["imp"][i].props.description = <<"dup">>

\* The standalone resources of one type among kids, in order.
OfType(kids, type) == SelectSeq(kids, LAMBDA kid : kid.type = type)

\* C19: addIngressRule leaves the direct egress list and the standalone
\* egress resources of its group as they are (so a sentinel that is there
\* stays), and addEgressRule leaves the direct ingress list and the standalone
\* ingress resources as they are, in allow-all and deny-by-default mode, for
\* inline-capable and other peers.
C19_IngressEgressIndependent ==
  [][ \A g \in ManagedGroups :
        /\ CallStep("addIngressRule", g) =>
             /\ directEgressRules'[g] = directEgressRules[g]
             /\ OfType(children'[g], "CfnSecurityGroupEgress")
                  = OfType(children[g], "CfnSecurityGroupEgress")
        /\ CallStep("addEgressRule", g) =>
             /\ directIngressRules'[g] = directIngressRules[g]
             /\ OfType(children'[g], "CfnSecurityGroupIngress")
                  = OfType(children[g], "CfnSecurityGroupIngress") ]_vars

\* C19 witness: a deny-by-default group that received addIngressRule on the
\* standalone and on the inline path and still has its sentinel as the only
\* egress rule, and no egress resource.
C19_Witness ==
  /\ ConstructedWith("sg1", FALSE)
  /\ LastCallWas("addIngressRule", "sg1")
  /\ egressCalls["sg1"] = 0
  /\ Len(directIngressRules["sg1"]) >= 1
  /\ Len(OfType(children["sg1"], "CfnSecurityGroupIngress")) >= 1
  /\ directEgressRules["sg1"] = <<MATCH_NO_TRAFFIC>>
  /\ OfType(children["sg1"], "CfnSecurityGroupEgress") = << >>

\* C20: a call on one SecurityGroup leaves every other SecurityGroup as it
\* was: its mode, its direct ingress list, its direct egress list (so also
\* whether it still holds the sentinel) and its children, whatever the modes
\* of the groups and also when the other group is the peer of the call.
C20_InstancesIsolated ==
  [][ \A g, h \in ManagedGroups :
        (nCalls' = nCalls + 1 /\ call'.group = g /\ h # g) =>
          /\ allowAllOutbound'[h] = allowAllOutbound[h]
          /\ directIngressRules'[h] = directIngressRules[h]
          /\ directEgressRules'[h] = directEgressRules[h]
          /\ children'[h] = children[h] ]_vars

\* C20 witness: two deny-by-default groups; sg1 received an inline ingress
\* rule, then sg2 lost its sentinel to addEgressRule with sg1 as the peer,
\* and sg1 still holds its sentinel and its ingress rule.
C20_Witness ==
  /\ ConstructedWith("sg1", FALSE) /\ ConstructedWith("sg2", FALSE)
  /\ LastCallWas("addEgressRule", "sg2") /\ call.peer = GroupPeer("sg1")
  /\ directEgressRules["sg2"] = << >>
  /\ Len(OfType(children["sg2"], "CfnSecurityGroupEgress")) = 1
  /\ directEgressRules["sg1"] = <<MATCH_NO_TRAFFIC>>
  /\ Len(directIngressRules["sg1"]) = 1
  /\ directIngressRules["sg2"] = << >>

====
